---------------------------- MODULE Spec2Model ----------------------------
(***************************************************************************)
(* Model of the MindEcho dashboard front end:                              *)
(*   - Dashboard (DashboardPro.jsx): the sensor feed callback, the face    *)
(*     signal handler, the animation-frame drain of rawBuffer into the     *)
(*     signals window, the affect mapper;                                  *)
(*   - FaceEmotionTracker: the sampling loop, the EMA filter and the       *)
(*     mapping of raw emotions to the calm/anxious/focus signal.           *)
(*   - the sleep-timing preference of the Dashboard (localStorage);        *)
(*   - ChatBot: recording, the voice turn (transcription call, then reply  *)
(*     call) and the typed text turn.                                      *)
(* Strings are sequences of characters, so that trim is computed.          *)
(* JavaScript numbers are modelled as exact rationals [n, d] in lowest     *)
(* terms (d > 0); NaN and the infinities are not modelled.                 *)
(***************************************************************************)
EXTENDS Integers, Sequences, FiniteSets, TLC

VARIABLES
    \* ---- Dashboard ----
    emotion,      \* useState: [primary, scores: [calm, focus]]
    tip,          \* useState: the tip text
    running,      \* useState(true)
    paused,       \* useState(false)
    rawBuffer,    \* useRef([]): the staging queue
    signals,      \* useState([]): the display window
    latestVal,    \* useMotionValue(0)
    now,          \* Date.now(): a logical clock, advanced by every push
    arrived,      \* history: every sample ever pushed to rawBuffer, in order
    caughtAt,     \* history (kept by SpecFaults): ts of the latest sample whose handler caught an exception, 0 if none
    \* ---- FaceEmotionTracker ----
    camRunning,   \* useState(false): running
    camPending,   \* startCamera calls awaiting getUserMedia
    timers,       \* the set of live setInterval handles
    intervalRef,  \* intervalRef.current (0 stands for null)
    nextTimer,    \* the next handle setInterval returns
    inFlight,     \* inFlightRef.current
    requests,     \* callEmotionApi calls awaiting their response
    smoothed,     \* useState: the smoothed expression vector
    trackerError, \* useState(""): error
    emitted,      \* every signal handed to onSignal, in order
    \* ---- constant-input feed of the EMA filter ----
    fnAlpha, fnRaw, fnStart, fnCount,
    \* ---- sleep-timing preference (Dashboard) ----
    sleepTiming,  \* useState: the in-memory value, a string
    storage,      \* localStorage under SLEEP_KEY: [has, val]
    lastOp,       \* history: the latest operation on the preference
    lastSet,      \* history: the value of the latest write that did not throw
    \* ---- ChatBot ----
    messages,         \* useState: the conversation, a sequence of [role, text]
    recording,        \* useState(false)
    loading,          \* useState(false)
    permissionError,  \* useState("")
    voiceEnabled,     \* useState(true)
    micPending,       \* startRecording calls awaiting getUserMedia, each with the state its render saw
                      \* and whether stopRecording ran since the call (history)
    mediaRecorderRef, \* mediaRecorderRef.current: the turn of the recorder, 0 for null
    turns,            \* the voice and text turns begun so far, each with its position
    calls             \* every request posted to the voice endpoint, in order

dashVars == <<emotion, tip, running, paused, rawBuffer, signals, latestVal, now, arrived>>
camVars == <<camRunning, camPending, timers, intervalRef, nextTimer>>
filterVars == <<inFlight, requests, smoothed, trackerError, emitted>>
fnVars == <<fnAlpha, fnRaw, fnStart, fnCount>>
sleepVars == <<sleepTiming, storage, lastOp, lastSet>>
chatVars ==
    <<messages, recording, loading, permissionError, voiceEnabled, micPending,
      mediaRecorderRef, turns, calls>>
vars == <<dashVars, caughtAt, camVars, filterVars, fnVars, sleepVars, chatVars>>

---------------------------------------------------------------------------
(* Bounds of the model *)

\* new samples pushed after the initial state
MaxNew == 5
\* face signals handled under SpecAffect
MaxAffect == 1
\* filter updates of the face tracker
MaxUpdates == 3
\* startCamera calls
MaxStarts == 2
\* applications of the EMA filter to the constant raw vector
MaxFeeds == 3
\* length of the strings typed into prompts and inputs
MaxLen == 3
\* voice and text turns of the chat
MaxTurns == 1
\* turns of the chat that may overlap under SpecOverlap
MaxOverlap == 2
\* answered text turns behind the conversation a session of SpecOverlap may start from
EarlierTurns == 5
\* the window of a nearly full initial state holds WindowCap - HeadRoom samples
HeadRoom == 2

---------------------------------------------------------------------------
(* Numbers *)

Abs(x) == IF x < 0 THEN -x ELSE x

RECURSIVE GCD(_, _)
GCD(a, b) == IF b = 0 THEN a ELSE GCD(b, a % b)

\* the rational n/d (d # 0) in lowest terms with a positive denominator
Rat(n, d) ==
    LET s == IF d < 0 THEN -1 ELSE 1
        g == GCD(Abs(n), Abs(d))
    IN  [n |-> (s * n) \div g, d |-> (s * d) \div g]

Zero == Rat(0, 1)
One == Rat(1, 1)

RAdd(a, b) == Rat(a.n * b.d + b.n * a.d, a.d * b.d)
RSub(a, b) == Rat(a.n * b.d - b.n * a.d, a.d * b.d)
RMul(a, b) == Rat(a.n * b.n, a.d * b.d)
RLt(a, b) == a.n * b.d < b.n * a.d
RLe(a, b) == a.n * b.d <= b.n * a.d
RAbs(a) == [n |-> Abs(a.n), d |-> a.d]
\* Math.min, Math.max
RMin(a, b) == IF RLt(b, a) THEN b ELSE a
RMax(a, b) == IF RLt(a, b) THEN b ELSE a

\* o.k ?? 0, and the destructuring default { k = 0 }
Field(o, k) == IF k \in DOMAIN o THEN o[k] ELSE Zero

---------------------------------------------------------------------------
(* Dashboard: pure helpers *)

WindowCap == 160
DrainBatch == 4

clamp(v, a, b) == RMax(a, RMin(b, v))

\* mutant of mapAffectToValue: clamp is called with its default bounds
mapAffectDefaultBounds(calm, focus) ==
    clamp(RAdd(RMul(focus, Rat(125, 100)), RMul(calm, Rat(9, 10))), Rat(-10, 1), Rat(10, 1))

mapAffectToValue(calm, focus) ==
    LET raw == RAdd(RMul(focus, Rat(125, 100)), RMul(calm, Rat(9, 10)))
    IN  clamp(raw, Rat(-3, 1), Rat(3, 1))

getTip(p) ==
    IF p = "" THEN "Waiting for signals..."
    ELSE IF p = "calm" THEN "Calm - keep gentle breathing."
    ELSE IF p = "tense" THEN "Tension detected - try 4 slow breaths."
    ELSE IF p = "focused" THEN "Focused - short breaks extend flow."
    ELSE "Stable - hydrate and blink."

\* mutant of classify: the thresholds are inclusive
classifyInclusive(calm, focus) ==
    IF RLe(Rat(6, 10), calm) /\ RLt(focus, calm) THEN "calm"
    ELSE IF RLe(Rat(55, 100), focus) /\ RLt(calm, focus) THEN "focused"
    ELSE IF RLe(calm, Rat(35, 100)) /\ RLe(focus, Rat(4, 10)) THEN "tense"
    ELSE "neutral"

\* the ordered threshold rules of handleFaceSignal
classify(calm, focus) ==
    IF RLt(Rat(6, 10), calm) /\ RLt(focus, calm) THEN "calm"
    ELSE IF RLt(Rat(55, 100), focus) /\ RLt(calm, focus) THEN "focused"
    ELSE IF RLt(calm, Rat(35, 100)) /\ RLt(focus, Rat(4, 10)) THEN "tense"
    ELSE "neutral"

\* the sample the sensor callback pushes: it has no source field
sensorSample(ts, val) == [ts |-> ts, value |-> val, source |-> "undefined"]
cameraSample(ts, val) == [ts |-> ts, value |-> val, source |-> "camera"]

\* neuro && neuro.alpha != null && neuro.beta != null ? alpha - beta : 0
sensorValue(s) ==
    IF "alpha" \in DOMAIN s /\ "beta" \in DOMAIN s
    THEN RSub(s.alpha, s.beta) ELSE Zero

\* rawBuffer.current.splice(0, k): the removed head, and what stays
spliceTake(buf, k) == SubSeq(buf, 1, IF Len(buf) < k THEN Len(buf) ELSE k)
spliceRest(buf, k) == SubSeq(buf, (IF Len(buf) < k THEN Len(buf) ELSE k) + 1, Len(buf))

\* arr.slice(-k)
sliceLast(arr, k) ==
    IF Len(arr) > k THEN SubSeq(arr, Len(arr) - k + 1, Len(arr)) ELSE arr

\* mutants of merge: the window is not truncated; the batch is prepended
mergeNoSlice(prev, take) == prev \o take
mergePrepend(prev, take) == sliceLast(take \o prev, WindowCap)

\* [...prev, ...take].slice(-160)
merge(prev, take) == sliceLast(prev \o take, WindowCap)

---------------------------------------------------------------------------
(* Dashboard: handlers *)

\* rawBuffer.current.push(sample)
push(sample) ==
    /\ rawBuffer' = Append(rawBuffer, sample)
    /\ arrived' = Append(arrived, sample)
    /\ now' = now + 1

\* mutant of sensorCallback: the push sits inside the try block of the inference
sensorCallbackPushInTry(s, inf, pushOk) ==
    /\ pushOk \in BOOLEAN
    /\ IF ~running \/ paused \/ inf.kind = "throw"
       THEN UNCHANGED dashVars
       ELSE /\ IF inf.kind = "value"
               THEN /\ emotion' = [primary |-> IF "primary" \in DOMAIN inf THEN inf.primary ELSE "neutral",
                                   scores |-> [calm |-> Field(inf, "calm"), focus |-> Field(inf, "focus")]]
                    /\ tip' = getTip(IF "primary" \in DOMAIN inf THEN inf.primary ELSE "neutral")
               ELSE UNCHANGED <<emotion, tip>>
            /\ push(sensorSample(now + 1, sensorValue(s)))
            /\ UNCHANGED <<running, paused, signals, latestVal>>

\* The callback of sensorSimulator.on("signals"). s is the payload, inf the
\* outcome of inferenceService.inferEmotion, pushOk whether simulatePush
\* returns (TRUE) or throws (FALSE).
sensorCallback(s, inf, pushOk) ==
    /\ pushOk \in BOOLEAN
    /\ IF ~running \/ paused
       THEN UNCHANGED dashVars
       ELSE /\ IF inf.kind = "value"
               THEN LET normalized ==
                            [primary |-> IF "primary" \in DOMAIN inf THEN inf.primary ELSE "neutral",
                             scores |-> [calm |-> Field(inf, "calm"), focus |-> Field(inf, "focus")]]
                    IN  /\ emotion' = normalized
                        /\ tip' = getTip(normalized.primary)
               ELSE UNCHANGED <<emotion, tip>>   \* null result, or a throw caught
            /\ push(sensorSample(now + 1, sensorValue(s)))
            /\ UNCHANGED <<running, paused, signals, latestVal>>

\* handleFaceSignal(sig): the effect on the Dashboard's state
faceSignalEffect(sig, pushOk) ==
    /\ pushOk \in BOOLEAN
    /\ LET calm == Field(sig, "calm")
           focus == Field(sig, "focus")
           primary == classify(calm, focus)
       IN  /\ emotion' = [primary |-> primary, scores |-> [calm |-> calm, focus |-> focus]]
           /\ tip' = getTip(primary)
           /\ push(cameraSample(now + 1, mapAffectToValue(calm, focus)))
    /\ UNCHANGED <<running, paused, signals, latestVal>>

\* handleFaceSignal(sig), called through the tracker's onSignal prop
handleFaceSignal(sig, pushOk) ==
    IF "null" \in DOMAIN sig
    THEN pushOk \in BOOLEAN /\ UNCHANGED dashVars
    ELSE faceSignalEffect(sig, pushOk)

\* mutant of tick: the whole staging queue is drained in one frame
tickDrainAll ==
    IF Len(rawBuffer) > 0
    THEN LET merged == merge(signals, rawBuffer)
         IN  /\ rawBuffer' = <<>>
             /\ signals' = merged
             /\ latestVal' = IF Len(merged) > 0 THEN merged[Len(merged)].value ELSE Zero
             /\ UNCHANGED <<emotion, tip, running, paused, now, arrived>>
    ELSE UNCHANGED dashVars

\* mutant of tick: a frame drains nothing while the dashboard is paused
tickUnlessPaused ==
    IF Len(rawBuffer) > 0 /\ ~paused
    THEN LET take == spliceTake(rawBuffer, DrainBatch)
             merged == merge(signals, take)
         IN  /\ rawBuffer' = spliceRest(rawBuffer, DrainBatch)
             /\ signals' = merged
             /\ latestVal' = IF Len(merged) > 0 THEN merged[Len(merged)].value ELSE Zero
             /\ UNCHANGED <<emotion, tip, running, paused, now, arrived>>
    ELSE UNCHANGED dashVars

\* one animation frame of the drain
tick ==
    IF Len(rawBuffer) > 0
    THEN LET take == spliceTake(rawBuffer, DrainBatch)
             merged == merge(signals, take)
         IN  /\ rawBuffer' = spliceRest(rawBuffer, DrainBatch)
             /\ signals' = merged
             /\ latestVal' = IF Len(merged) > 0 THEN merged[Len(merged)].value ELSE Zero
             /\ UNCHANGED <<emotion, tip, running, paused, now, arrived>>
    ELSE UNCHANGED dashVars

toggleRunning == running' = ~running /\ UNCHANGED <<emotion, tip, paused, rawBuffer, signals, latestVal, now, arrived>>
togglePause == paused' = ~paused /\ UNCHANGED <<emotion, tip, running, rawBuffer, signals, latestVal, now, arrived>>

---------------------------------------------------------------------------
(* FaceEmotionTracker: pure helpers *)

EmotionKeys == {"happiness", "neutral", "sadness", "anger", "fear"}

\* the smoothing prop (default 0.6; the Dashboard passes none)
smoothing == Rat(6, 10)

\* mutants of ema: a key missing from prev starts at its first observed value;
\* the two weights are swapped; the weight of next is not 1 - alpha
emaFirstValue(prev, next, alpha) ==
    [k \in (DOMAIN prev) \cup (DOMAIN next) |->
        RAdd(RMul(alpha, IF k \in DOMAIN prev THEN prev[k] ELSE Field(next, k)),
             RMul(RSub(One, alpha), Field(next, k)))]
emaSwapped(prev, next, alpha) ==
    [k \in (DOMAIN prev) \cup (DOMAIN next) |->
        RAdd(RMul(RSub(One, alpha), Field(prev, k)), RMul(alpha, Field(next, k)))]
emaUnweighted(prev, next, alpha) ==
    [k \in (DOMAIN prev) \cup (DOMAIN next) |->
        RAdd(RMul(alpha, Field(prev, k)), Field(next, k))]

\* EMA smoothing
ema(prev, next, alpha) ==
    [k \in (DOMAIN prev) \cup (DOMAIN next) |->
        RAdd(RMul(alpha, Field(prev, k)), RMul(RSub(One, alpha), Field(next, k)))]

\* next = { happiness: Number(data.emotions.happiness ?? 0), ... }
nextOf(emotions) == [k \in EmotionKeys |-> Field(emotions, k)]

\* the signal mapToSignalsAndEmit hands to onSignal
mapToSignals(emotions) ==
    LET happy == Field(emotions, "happiness")
        neutral == Field(emotions, "neutral")
        angry == Field(emotions, "anger")
        fear == Field(emotions, "fear")
        surprised == Field(emotions, "surprised")
        calmRaw == RMin(One, RSub(RAdd(RMul(happy, Rat(7, 10)), RMul(neutral, Rat(6, 10))),
                                  RMul(fear, Rat(3, 10))))
        anxiousRaw == RMin(One, RAdd(RAdd(RMul(fear, Rat(7, 10)), RMul(surprised, Rat(5, 10))),
                                     RMul(angry, Rat(4, 10))))
        focusRaw == RMin(One, RAdd(RAdd(RMul(neutral, Rat(6, 10)),
                                        RMul(RSub(One, surprised), Rat(3, 10))),
                                   RMul(happy, Rat(1, 10))))
    IN  [calm |-> RMax(Zero, RMin(One, calmRaw)),
         anxious |-> RMax(Zero, RMin(One, anxiousRaw)),
         focus |-> RMax(Zero, RMin(One, focusRaw)),
         rawExpressions |-> emotions]

\* mutant of emitArg: the smoothed vector is emitted
emitSmoothed(next, mixed) == mixed

\* what the setSmoothed updater hands to mapToSignalsAndEmit
emitArg(next, mixed) == next

\* whether the payload updates the filter: data.success && data.emotions
updatesFilter(data) ==
    data.kind = "json" /\ data.success /\ "emotions" \in DOMAIN data

---------------------------------------------------------------------------
(* FaceEmotionTracker: handlers *)

\* startCamera up to its await of getUserMedia
startCamera ==
    /\ trackerError' = ""
    /\ camPending' = camPending + 1
    /\ UNCHANGED <<camRunning, timers, intervalRef, nextTimer, inFlight, requests, smoothed, emitted>>
    /\ UNCHANGED <<dashVars, caughtAt, fnVars, sleepVars, chatVars>>

\* getUserMedia resolves: setRunning(true), intervalRef.current = setInterval(...)
cameraGranted ==
    /\ camPending > 0
    /\ camPending' = camPending - 1
    /\ camRunning' = TRUE
    /\ timers' = timers \cup {nextTimer}
    /\ intervalRef' = nextTimer
    /\ nextTimer' = nextTimer + 1
    /\ UNCHANGED <<filterVars, dashVars, caughtAt, fnVars, sleepVars, chatVars>>

\* getUserMedia rejects
cameraDenied ==
    /\ camPending > 0
    /\ camPending' = camPending - 1
    /\ trackerError' = "Unable to access camera."
    /\ UNCHANGED <<camRunning, timers, intervalRef, nextTimer, inFlight, requests, smoothed, emitted>>
    /\ UNCHANGED <<dashVars, caughtAt, fnVars, sleepVars, chatVars>>

stopCamera ==
    /\ camRunning' = FALSE
    /\ timers' = timers \ {intervalRef}
    /\ intervalRef' = 0
    /\ UNCHANGED <<camPending, nextTimer, filterVars, dashVars, caughtAt, fnVars, sleepVars, chatVars>>

\* sampleAndSend without its first line, the test of inFlightRef
sampleAndSendNoGuard(captureOk) ==
    /\ timers # {}
    /\ IF captureOk
       THEN /\ inFlight' = TRUE
            /\ requests' = requests + 1
            /\ UNCHANGED <<smoothed, trackerError, emitted>>
       ELSE /\ inFlight' = FALSE
            /\ trackerError' = "capture failed"
            /\ UNCHANGED <<requests, smoothed, emitted>>
    /\ UNCHANGED <<camVars, dashVars, caughtAt, fnVars, sleepVars, chatVars>>

\* sampleAndSend, fired by a live interval, up to its await of callEmotionApi;
\* captureOk: whether drawing the frame returns (TRUE) or throws (FALSE)
sampleAndSend(captureOk) ==
    /\ timers # {}
    /\ IF inFlight
       THEN UNCHANGED filterVars
       ELSE IF captureOk
       THEN /\ inFlight' = TRUE
            /\ requests' = requests + 1
            /\ UNCHANGED <<smoothed, trackerError, emitted>>
       ELSE /\ inFlight' = FALSE
            /\ trackerError' = "capture failed"
            /\ UNCHANGED <<requests, smoothed, emitted>>
    /\ UNCHANGED <<camVars, dashVars, caughtAt, fnVars, sleepVars, chatVars>>

\* callEmotionApi on an HTTP response h: throws on a non-2xx status, on an empty
\* body and on a body that is not JSON; otherwise returns the parsed body
callEmotionApi(h) ==
    IF ~h.ok \/ h.body.kind \in {"empty", "invalid"} THEN [kind |-> "throw"] ELSE h.body

\* sampleAndSend whose catch block leaves the in-flight flag set
respondKeepsInFlight(data, pushOk) ==
    /\ requests > 0
    /\ requests' = requests - 1
    /\ inFlight' = IF data.kind = "throw" THEN inFlight ELSE FALSE
    /\ IF data.kind = "throw"
       THEN /\ trackerError' = "Emotion API error"
            /\ UNCHANGED <<smoothed, emitted, dashVars>>
       ELSE IF updatesFilter(data)
       THEN LET next == nextOf(data.emotions)
                mixed == ema(smoothed, next, smoothing)
                sig == mapToSignals(emitArg(next, mixed))
            IN  /\ smoothed' = mixed
                /\ emitted' = Append(emitted, sig)
                /\ handleFaceSignal(sig, pushOk)
                /\ UNCHANGED trackerError
       ELSE UNCHANGED <<smoothed, trackerError, emitted, dashVars>>
    /\ UNCHANGED <<camVars, caughtAt, fnVars, sleepVars, chatVars>>

\* sampleAndSend from the completion of callEmotionApi on. data is the outcome:
\* a throw (non-2xx, empty body, invalid JSON), a falsy value, or an object;
\* pushOk is the outcome of simulatePush inside the onSignal handler.
respond(data, pushOk) ==
    /\ requests > 0
    /\ requests' = requests - 1
    /\ inFlight' = FALSE
    /\ IF data.kind = "throw"
       THEN /\ trackerError' = "Emotion API error"
            /\ UNCHANGED <<smoothed, emitted, dashVars>>
       ELSE IF updatesFilter(data)
       THEN LET next == nextOf(data.emotions)
                mixed == ema(smoothed, next, smoothing)
                sig == mapToSignals(emitArg(next, mixed))
            IN  /\ smoothed' = mixed
                /\ emitted' = Append(emitted, sig)
                /\ handleFaceSignal(sig, pushOk)
                /\ UNCHANGED trackerError
       ELSE UNCHANGED <<smoothed, trackerError, emitted, dashVars>>
    /\ UNCHANGED <<camVars, caughtAt, fnVars, sleepVars, chatVars>>

---------------------------------------------------------------------------
(* The EMA filter fed a constant raw vector *)

emaFeed ==
    /\ smoothed' = ema(smoothed, fnRaw, fnAlpha)
    /\ fnCount' = fnCount + 1
    /\ UNCHANGED <<fnAlpha, fnRaw, fnStart>>
    /\ UNCHANGED <<inFlight, requests, trackerError, emitted, camVars, dashVars, caughtAt, sleepVars, chatVars>>

---------------------------------------------------------------------------
(* Strings: a string is a sequence of characters, "" is << >> *)

Chars == {" ", "a"}
Whitespace == {" "}
Strings == UNION {[1..n -> Chars] : n \in 0..MaxLen}

RECURSIVE trimStart(_)
trimStart(s) == IF s # <<>> /\ Head(s) \in Whitespace THEN trimStart(Tail(s)) ELSE s

RECURSIVE trimEnd(_)
trimEnd(s) ==
    IF s # <<>> /\ s[Len(s)] \in Whitespace THEN trimEnd(SubSeq(s, 1, Len(s) - 1)) ELSE s

\* String.prototype.trim
trim(s) == trimEnd(trimStart(s))

---------------------------------------------------------------------------
(* The sleep-timing preference of the Dashboard *)

Absent == [has |-> FALSE, val |-> <<>>]

\* the useState initializer: localStorage.getItem(SLEEP_KEY) || "", "" when
\* getItem throws (readOk = FALSE)
getSleepTiming(readOk) == IF readOk /\ storage.has THEN storage.val ELSE <<>>

\* the component mounts (first load or reload of the page)
mountDashboard(readOk) ==
    /\ sleepTiming' = getSleepTiming(readOk)
    /\ UNCHANGED storage

\* saveSleepTiming that updates the state but writes nothing to storage
saveSleepTimingStateOnly(val, writeOk) ==
    IF writeOk
    THEN /\ sleepTiming' = val
         /\ UNCHANGED storage
    ELSE UNCHANGED <<sleepTiming, storage>>

\* saveSleepTiming whose catch block resets the state to ""
saveSleepTimingResetOnError(val, writeOk) ==
    IF writeOk
    THEN IF val = <<>>
         THEN storage' = Absent /\ sleepTiming' = <<>>
         ELSE storage' = [has |-> TRUE, val |-> val] /\ sleepTiming' = val
    ELSE sleepTiming' = <<>> /\ UNCHANGED storage

\* writeOk = FALSE: removeItem / setItem throws, which skips setSleepTiming
saveSleepTiming(val, writeOk) ==
    IF writeOk
    THEN IF val = <<>>
         THEN storage' = Absent /\ sleepTiming' = <<>>
         ELSE storage' = [has |-> TRUE, val |-> val] /\ sleepTiming' = val
    ELSE UNCHANGED <<sleepTiming, storage>>

\* onSetSleepTiming that saves the prompt's text as typed
onSetSleepTimingNoTrim(answer, writeOk) ==
    IF answer.cancelled
    THEN UNCHANGED <<sleepTiming, storage>>
    ELSE IF trim(answer.text) = <<>>
         THEN UNCHANGED <<sleepTiming, storage>>
         ELSE saveSleepTiming(answer.text, writeOk)

\* answer: what window.prompt returns (the input of the code), null (cancelled)
\* or the text
onSetSleepTiming(answer, writeOk) ==
    IF answer.cancelled
    THEN UNCHANGED <<sleepTiming, storage>>
    ELSE LET trimmed == trim(answer.text)
         IN  IF trimmed = <<>>
             THEN UNCHANGED <<sleepTiming, storage>>
             ELSE saveSleepTiming(trimmed, writeOk)

onClearSleepTiming(confirmed, writeOk) ==
    IF sleepTiming = <<>> \/ ~confirmed
    THEN UNCHANGED <<sleepTiming, storage>>
    ELSE saveSleepTiming(<<>>, writeOk)

NoOp ==
    [op |-> "none", text |-> <<>>, called |-> FALSE, val |-> <<>>, ok |-> TRUE,
     before |-> [mem |-> <<>>, sto |-> Absent]]

InitSleep ==
    /\ sleepTiming = <<>>
    /\ storage = Absent
    /\ lastOp = NoOp
    /\ lastSet = Absent

---------------------------------------------------------------------------
(* ChatBot: the voice and text turns *)

\* messages.slice(-10)
HistoryLen == 10

Greeting == <<"Hi - hold the mic and speak. I'll transcribe and reply.">>

message(role, text) == [role |-> role, text |-> text]

\* o.k, undefined rendered as dflt
Opt(o, k, dflt) == IF k \in DOMAIN o THEN o[k] ELSE dflt

\* safeFetchJson on an HTTP response h: throws on a non-2xx status and on a
\* body that is not JSON, returns null on an empty body, else the parsed body
safeFetchJson(h) ==
    IF ~h.ok THEN [kind |-> "throw"]
    ELSE IF h.body.kind = "empty" THEN [kind |-> "null"]
    ELSE IF h.body.kind = "invalid" THEN [kind |-> "throw"]
    ELSE h.body

\* the test of a response that accepts whatever is not null
notSuccessNullOnly(r) == r.kind = "null"

\* !resp || !resp.success
notSuccess(r) == r.kind = "null" \/ ~Opt(r, "success", FALSE)

\* resp?.error || dflt
errorOr(r, dflt) == IF Opt(r, "error", <<>>) # <<>> THEN r.error ELSE dflt

\* the test of sendText that rejects the empty string only
isBlankEmptyOnly(txt) == txt = <<>>

\* !txt || !txt.trim()
isBlank(txt) == txt = <<>> \/ trim(txt) = <<>>

NoResponse == [kind |-> "none"]

newTurn(kind, pc, hist, voice, said, ev) ==
    [kind |-> kind, pc |-> pc, hist |-> hist, voice |-> voice, said |-> said,
     trans |-> NoResponse, reply |-> NoResponse, ev |-> ev]

\* the events of a turn: a message appended at index at, a request posted as
\* calls[at], or a playback
msgEvent(at) == [e |-> "msg", at |-> at]
callEvent(at) == [e |-> "call", at |-> at]
playEvent == [e |-> "play", at |-> 0]

remove(seq, i) == SubSeq(seq, 1, i - 1) \o SubSeq(seq, i + 1, Len(seq))

\* startRecording up to its await of getUserMedia
startRecording ==
    /\ permissionError' = ""
    /\ micPending' = Append(micPending, [hist |-> messages, voice |-> voiceEnabled,
                                         released |-> FALSE])
    /\ UNCHANGED <<messages, recording, loading, voiceEnabled, mediaRecorderRef, turns, calls>>

\* getUserMedia resolves for the i-th pending call: the recorder is created,
\* stored in mediaRecorderRef and started
micGranted(i) ==
    /\ i \in 1..Len(micPending)
    /\ turns' = Append(turns, newTurn("voice", "recording", micPending[i].hist,
                                      micPending[i].voice, <<>>, <<>>))
    /\ mediaRecorderRef' = Len(turns) + 1
    /\ recording' = TRUE
    /\ micPending' = remove(micPending, i)
    /\ UNCHANGED <<messages, loading, permissionError, voiceEnabled, calls>>

\* getUserMedia rejects
micDenied(i) ==
    /\ i \in 1..Len(micPending)
    /\ permissionError' = "Unable to access microphone. Allow permission and try again."
    /\ micPending' = remove(micPending, i)
    /\ UNCHANGED <<messages, recording, loading, voiceEnabled, mediaRecorderRef, turns, calls>>

\* the recorder in the ref, if it is recording, is stopped and the flag cleared;
\* the acquisitions still pending are marked as released (history only: the
\* code keeps no trace of them)
stopRecording ==
    /\ turns' = IF mediaRecorderRef # 0 /\ turns[mediaRecorderRef].pc = "recording"
                THEN [turns EXCEPT ![mediaRecorderRef].pc = "stopped"]
                ELSE turns
    /\ recording' = FALSE
    /\ micPending' = [i \in 1..Len(micPending) |-> [micPending[i] EXCEPT !.released = TRUE]]
    /\ UNCHANGED <<messages, loading, permissionError, voiceEnabled, mediaRecorderRef, calls>>

\* the request posted by turn t: history is the slice of the messages its
\* closure holds; conv records the conversation at the time of the request
request(t, mode, hist, text) ==
    [turn |-> t, mode |-> mode, history |-> sliceLast(hist, HistoryLen), text |-> text,
     conv |-> messages]

\* the turn ends with one assistant message, the loading flag left as it is
endWithNoFinally(t, tr, text) ==
    /\ messages' = Append(messages, message("assistant", text))
    /\ turns' = [turns EXCEPT ![t] = [tr EXCEPT !.pc = "done",
                                               !.ev = Append(@, msgEvent(Len(messages) + 1))]]
    /\ UNCHANGED loading

\* the turn ends with one assistant message: the append, then the finally block
endWith(t, tr, text) ==
    /\ messages' = Append(messages, message("assistant", text))
    /\ turns' = [turns EXCEPT ![t] = [tr EXCEPT !.pc = "done",
                                               !.ev = Append(@, msgEvent(Len(messages) + 1))]]
    /\ loading' = FALSE

\* the reply is appended; the audio, if any and if enabled, is played before
\* the finally block
endWithReply(t, tr, r) ==
    /\ messages' = Append(messages, message("assistant", Opt(r, "replyText", <<"(no reply text)">>)))
    /\ IF tr.voice /\ Opt(r, "audioBase64", FALSE)
       THEN /\ turns' = [turns EXCEPT ![t] =
                            [tr EXCEPT !.pc = "playing",
                                       !.ev = @ \o <<msgEvent(Len(messages) + 1), playEvent>>]]
            /\ UNCHANGED loading
       ELSE /\ turns' = [turns EXCEPT ![t] =
                            [tr EXCEPT !.pc = "done",
                                       !.ev = Append(@, msgEvent(Len(messages) + 1))]]
            /\ loading' = FALSE

\* recorder.onstop: handleAudioFlow up to its first await
onstop(t) ==
    /\ t \in 1..Len(turns)
    /\ turns[t].pc = "stopped"
    /\ loading' = TRUE
    /\ calls' = Append(calls, request(t, "audio", turns[t].hist, <<>>))
    /\ turns' = [turns EXCEPT ![t].pc = "transcribing",
                              ![t].ev = Append(@, callEvent(Len(calls) + 1))]
    /\ UNCHANGED <<messages, recording, permissionError, voiceEnabled, micPending,
                   mediaRecorderRef>>

\* handleAudioFlow that posts the transcript without appending it
transcribedNoUserMessage(t, h) ==
    /\ t \in 1..Len(turns)
    /\ turns[t].pc = "transcribing"
    /\ LET r == safeFetchJson(h)
           tr == [turns[t] EXCEPT !.trans = r]
           transcript == Opt(r, "transcript", <<>>)
       IN  IF r.kind = "throw"
           THEN endWith(t, tr, <<"Something went wrong processing your audio.">>)
                /\ UNCHANGED calls
           ELSE IF notSuccess(r)
           THEN endWith(t, tr, errorOr(r, <<"Could not transcribe audio.">>))
                /\ UNCHANGED calls
           ELSE IF transcript = <<>>
           THEN endWith(t, tr, <<"No speech recognized.">>)
                /\ UNCHANGED calls
           ELSE /\ calls' = Append(calls, request(t, "text", tr.hist, transcript))
                /\ turns' = [turns EXCEPT ![t] =
                                [tr EXCEPT !.pc = "awaitingReply", !.said = transcript,
                                           !.ev = Append(@, callEvent(Len(calls) + 1))]]
                /\ UNCHANGED <<messages, loading>>
    /\ UNCHANGED <<recording, permissionError, voiceEnabled, micPending, mediaRecorderRef>>

\* handleAudioFlow from the answer h of the transcription call to its next await
transcribed(t, h) ==
    /\ t \in 1..Len(turns)
    /\ turns[t].pc = "transcribing"
    /\ LET r == safeFetchJson(h)
           tr == [turns[t] EXCEPT !.trans = r]
           transcript == Opt(r, "transcript", <<>>)
       IN  IF r.kind = "throw"
           THEN endWith(t, tr, <<"Something went wrong processing your audio.">>)
                /\ UNCHANGED calls
           ELSE IF notSuccess(r)
           THEN endWith(t, tr, errorOr(r, <<"Could not transcribe audio.">>))
                /\ UNCHANGED calls
           ELSE IF transcript = <<>>
           THEN endWith(t, tr, <<"No speech recognized.">>)
                /\ UNCHANGED calls
           ELSE /\ messages' = Append(messages, message("user", transcript))
                /\ calls' = Append(calls, request(t, "text", tr.hist, transcript))
                /\ turns' = [turns EXCEPT ![t] =
                                [tr EXCEPT !.pc = "awaitingReply", !.said = transcript,
                                           !.ev = @ \o <<msgEvent(Len(messages) + 1),
                                                         callEvent(Len(calls) + 1)>>]]
                /\ UNCHANGED loading
    /\ UNCHANGED <<recording, permissionError, voiceEnabled, micPending, mediaRecorderRef>>

\* handleAudioFlow from the answer h of the reply call on
replied(t, h) ==
    /\ t \in 1..Len(turns)
    /\ turns[t].kind = "voice"
    /\ turns[t].pc = "awaitingReply"
    /\ LET r == safeFetchJson(h)
           tr == [turns[t] EXCEPT !.reply = r]
       IN  IF r.kind = "throw"
           THEN endWith(t, tr, <<"Something went wrong processing your audio.">>)
           ELSE IF notSuccess(r)
           THEN endWith(t, tr, errorOr(r, <<"Assistant failed to respond.">>))
           ELSE endWithReply(t, tr, r)
    /\ UNCHANGED <<recording, permissionError, voiceEnabled, micPending,
                   mediaRecorderRef, calls>>

\* audioRef.current.play() settles: the finally block of the turn runs
played(t) ==
    /\ t \in 1..Len(turns)
    /\ turns[t].pc = "playing"
    /\ turns' = [turns EXCEPT ![t].pc = "done"]
    /\ loading' = FALSE
    /\ UNCHANGED <<messages, recording, permissionError, voiceEnabled, micPending,
                   mediaRecorderRef, calls>>

\* sendText(input) up to its await: Enter in the text field or the Send button;
\* txt is what the text field holds, which setInput("") then empties
sendText(txt) ==
    IF isBlank(txt)
    THEN UNCHANGED chatVars
    ELSE LET text == trim(txt)
         IN  /\ messages' = Append(messages, message("user", text))
             /\ loading' = TRUE
             /\ calls' = Append(calls, request(Len(turns) + 1, "text", messages, text))
             /\ turns' = Append(turns,
                                newTurn("text", "awaitingReply", messages, voiceEnabled, text,
                                        <<msgEvent(Len(messages) + 1), callEvent(Len(calls) + 1)>>))
             /\ UNCHANGED <<recording, permissionError, voiceEnabled, micPending, mediaRecorderRef>>

\* sendText from the answer h of its call on
textReplied(t, h) ==
    /\ t \in 1..Len(turns)
    /\ turns[t].kind = "text"
    /\ turns[t].pc = "awaitingReply"
    /\ LET r == safeFetchJson(h)
           tr == [turns[t] EXCEPT !.reply = r]
       IN  IF r.kind = "throw"
           THEN endWith(t, tr, <<"Failed to reach assistant.">>)
           ELSE IF notSuccess(r)
           THEN endWith(t, tr, errorOr(r, <<"Assistant error.">>))
           ELSE endWithReply(t, tr, r)
    /\ UNCHANGED <<recording, permissionError, voiceEnabled, micPending,
                   mediaRecorderRef, calls>>

\* onChange of the Auto-play checkbox
toggleVoice ==
    /\ voiceEnabled' = ~voiceEnabled
    /\ UNCHANGED <<messages, recording, loading, permissionError, micPending,
                   mediaRecorderRef, turns, calls>>

\* the conversation after p earlier text turns that were answered
RECURSIVE earlier(_)
earlier(p) ==
    IF p = 0 THEN <<message("assistant", Greeting)>>
    ELSE earlier(p - 1) \o <<message("user", <<"a">>), message("assistant", <<"r">>)>>

InitChat(p) ==
    /\ messages = earlier(p)
    /\ recording = FALSE
    /\ loading = FALSE
    /\ permissionError = ""
    /\ voiceEnabled = TRUE
    /\ micPending = <<>>
    /\ mediaRecorderRef = 0
    /\ turns = <<>>
    /\ calls = <<>>

---------------------------------------------------------------------------
(* Initial states *)

\* a window the program reaches by pushing and draining p sensor samples of
\* payloads without neuro data
preloaded(p) == [i \in 1..p |-> sensorSample(i, Zero)]

InitDashboard(p) ==
    /\ emotion = [primary |-> "neutral", scores |-> [calm |-> Zero, focus |-> Zero]]
    /\ tip = "Waiting for signals..."
    /\ running = TRUE
    /\ paused = FALSE
    /\ rawBuffer = <<>>
    /\ signals = preloaded(p)
    /\ latestVal = Zero
    /\ now = p
    /\ arrived = preloaded(p)

InitTracker ==
    /\ camRunning = FALSE
    /\ camPending = 0
    /\ timers = {}
    /\ intervalRef = 0
    /\ nextTimer = 1
    /\ inFlight = FALSE
    /\ requests = 0
    /\ smoothed = [k \in EmotionKeys |-> Zero]
    /\ trackerError = ""
    /\ emitted = <<>>

InitFeed ==
    /\ fnAlpha = smoothing
    /\ fnRaw = [k \in EmotionKeys |-> Zero]
    /\ fnStart = [k \in EmotionKeys |-> Zero]
    /\ fnCount = 0

\* samples pushed since the initial state
NewCount ==
    IF now >= WindowCap - HeadRoom THEN now - (WindowCap - HeadRoom) ELSE now

---------------------------------------------------------------------------
(* Spec: the Dashboard's signal pipeline *)

SensorInputs == {[id |-> One], [alpha |-> Rat(5, 2), beta |-> One]}

InferOutcomes ==
    {[kind |-> "throw"], [kind |-> "null"],
     [kind |-> "value", primary |-> "stable", calm |-> Rat(1, 2)]}

FaceSignals == {[calm |-> Rat(4, 5), focus |-> Rat(3, 10)]}

Init ==
    /\ \E p \in {0, WindowCap - HeadRoom} : InitDashboard(p)
    /\ caughtAt = 0
    /\ InitTracker
    /\ InitFeed
    /\ InitSleep
    /\ InitChat(0)

Sensor ==
    /\ NewCount < MaxNew
    /\ \E s \in SensorInputs, inf \in InferOutcomes, ok \in BOOLEAN : sensorCallback(s, inf, ok)
    /\ UNCHANGED <<caughtAt, camVars, filterVars, fnVars, sleepVars, chatVars>>

Face ==
    /\ NewCount < MaxNew
    /\ \E sig \in FaceSignals, ok \in BOOLEAN : handleFaceSignal(sig, ok)
    /\ UNCHANGED <<caughtAt, camVars, filterVars, fnVars, sleepVars, chatVars>>

Tick == tick /\ UNCHANGED <<caughtAt, camVars, filterVars, fnVars, sleepVars, chatVars>>

ToggleRunning == toggleRunning /\ UNCHANGED <<caughtAt, camVars, filterVars, fnVars, sleepVars, chatVars>>

TogglePause == togglePause /\ UNCHANGED <<caughtAt, camVars, filterVars, fnVars, sleepVars, chatVars>>

Next == Sensor \/ Face \/ Tick \/ ToggleRunning \/ TogglePause

Spec == Init /\ [][Next]_vars

---------------------------------------------------------------------------
(* Claims on the signal pipeline *)

\* the number of samples drained so far, and those samples in arrival order
DrainedCount == Len(arrived) - Len(rawBuffer)
Drained == SubSeq(arrived, 1, DrainedCount)

\* C1: in every reachable state the display window holds at most 160 samples.
C1_WindowAtMost160 == Len(signals) <= 160

\* C1 witness: the window is full and its oldest samples have been evicted.
C1_Witness ==
    /\ Len(signals) = 160
    /\ DrainedCount > 160
    /\ signals[1].ts > 1

\* C2: the window is the last min(160, n) of the n samples drained so far, and
\* the drained samples followed by the staging queue are all samples pushed so
\* far, in arrival order.
C2_StrictFifo ==
    LET n == DrainedCount
        m == IF n < 160 THEN n ELSE 160
    IN  /\ n >= 0
        /\ signals = SubSeq(Drained, n - m + 1, n)
        /\ Drained \o rawBuffer = arrived
        /\ \A i \in 1..(Len(arrived) - 1) : arrived[i].ts < arrived[i + 1].ts

\* C2 witness: samples of both producers were drained past the capacity while
\* others still wait in the staging queue.
C2_Witness ==
    /\ DrainedCount > 160
    /\ Len(rawBuffer) >= 2
    /\ signals[Len(signals)].source # signals[Len(signals) - 1].source

\* C3: one drain tick moves exactly min(4, Len(rawBuffer)) samples from the head
\* of the staging queue to the end of the window, keeps the last 160, and with
\* an empty queue changes neither the queue, the window nor the latest value.
C3_TickEffect ==
    [][Tick =>
        LET k == IF Len(rawBuffer) < 4 THEN Len(rawBuffer) ELSE 4
            all == signals \o SubSeq(rawBuffer, 1, k)
            keep == IF Len(all) < 160 THEN Len(all) ELSE 160
        IN  /\ Len(rawBuffer') = Len(rawBuffer) - k
            /\ rawBuffer' = SubSeq(rawBuffer, k + 1, Len(rawBuffer))
            /\ signals' = SubSeq(all, Len(all) - keep + 1, Len(all))
            /\ (k > 0 => latestVal' = rawBuffer[k].value)
            /\ (k = 0 => UNCHANGED <<rawBuffer, signals, latestVal>>)]_vars

\* C3 witness: a tick took four samples of a longer queue and the window was
\* truncated.
C3_Witness ==
    /\ Len(signals) = 160
    /\ signals[1].ts > 2
    /\ Len(rawBuffer) = 1
    /\ rawBuffer[1].ts = signals[160].ts + 1
    /\ DrainedCount = (WindowCap - HeadRoom) + 4

---------------------------------------------------------------------------
(* SpecLive: the pipeline with the drain scheduled fairly. tick re-arms itself
   with requestAnimationFrame at the end of every frame, so a frame that can
   drain is not postponed forever. *)

\* the sensor feed with one payload and no inference result
SensorLive ==
    /\ NewCount < MaxNew
    /\ sensorCallback([alpha |-> Rat(5, 2), beta |-> One], [kind |-> "null"], TRUE)
    /\ UNCHANGED <<caughtAt, camVars, filterVars, fnVars, sleepVars, chatVars>>

NextLive == SensorLive \/ Face \/ Tick \/ ToggleRunning \/ TogglePause

SpecLive == Init /\ [][NextLive]_vars /\ WF_vars(Tick)

\* the ts of the k-th sample pushed since the initial state
NewTs(k) == now - NewCount + k

Queued(k) == \E i \in 1..Len(rawBuffer) : rawBuffer[i].ts = NewTs(k)
Displayed(k) == \E i \in 1..Len(signals) : signals[i].ts = NewTs(k)

\* C21: with the drain tick weakly fair, every sample appended to the staging
\* queue eventually appears in the display window, whatever the producers do;
\* a producer's push is appended at once, however long the queue is.
C21_EverySampleDisplayed ==
    /\ \A k \in 1..MaxNew : Queued(k) ~> Displayed(k)
    /\ [][Len(arrived') > Len(arrived) =>
              rawBuffer' = Append(rawBuffer, arrived'[Len(arrived')])]_vars

\* C21 witness: more samples than one frame drains were queued while the
\* dashboard was paused, and the last of them is displayed.
C21_Witness ==
    /\ paused
    /\ NewCount > DrainBatch
    /\ rawBuffer = <<>>
    /\ Displayed(NewCount)
    /\ signals[Len(signals)].source = "camera"

---------------------------------------------------------------------------
(* SpecFaults: the two producers with the exceptions they swallow recorded *)

InitFaults ==
    /\ InitDashboard(0)
    /\ caughtAt = 0
    /\ InitTracker
    /\ InitFeed
    /\ InitSleep
    /\ InitChat(0)

SensorFault ==
    /\ NewCount < MaxNew
    /\ \E s \in SensorInputs, inf \in InferOutcomes, ok \in BOOLEAN :
          /\ sensorCallback(s, inf, ok)
          /\ caughtAt' = IF running /\ ~paused /\ (inf.kind = "throw" \/ ~ok)
                         THEN now + 1 ELSE caughtAt
    /\ UNCHANGED <<camVars, filterVars, fnVars, sleepVars, chatVars>>

FaceFault ==
    /\ NewCount < MaxNew
    /\ \E sig \in FaceSignals, ok \in BOOLEAN :
          /\ handleFaceSignal(sig, ok)
          /\ caughtAt' = IF ~ok THEN now + 1 ELSE caughtAt
    /\ UNCHANGED <<camVars, filterVars, fnVars, sleepVars, chatVars>>

NextFaults == SensorFault \/ FaceFault \/ Tick \/ TogglePause

SpecFaults == InitFaults /\ [][NextFaults]_vars

\* C10 (as stated): a sample whose handler caught an exception of inference or
\* of simulatePush is not appended to the staging queue.
C10_FailedSampleNotEnqueued ==
    caughtAt > 0 => \A i \in 1..Len(arrived) : arrived[i].ts # caughtAt

\* C10 (amended): the exception is swallowed and the sample is appended all the
\* same; a callback that runs after an exception was caught appends its sample
\* too.
C10_FailedSampleStillEnqueued ==
    [][\A ok \in BOOLEAN :
          /\ \A s \in SensorInputs, inf \in InferOutcomes :
                (/\ running /\ ~paused
                 /\ sensorCallback(s, inf, ok)
                 /\ (inf.kind = "throw" \/ ~ok \/ caughtAt > 0))
                => rawBuffer' = Append(rawBuffer,
                       [ts |-> now + 1, value |-> sensorValue(s), source |-> "undefined"])
          /\ \A sig \in FaceSignals :
                (handleFaceSignal(sig, ok) /\ (~ok \/ caughtAt > 0))
                => (/\ Len(rawBuffer') = Len(rawBuffer) + 1
                    /\ rawBuffer'[Len(rawBuffer')].ts = now + 1
                    /\ rawBuffer'[Len(rawBuffer')].source = "camera")]_vars

\* C10 witness: a sample whose handler caught an exception was pushed, and a
\* later sample of the same producer was pushed after it.
C10_Witness ==
    /\ caughtAt > 0
    /\ \E i, j \in 1..Len(arrived) :
          /\ arrived[i].ts = caughtAt
          /\ arrived[j].ts > caughtAt
          /\ arrived[j].source = arrived[i].source

---------------------------------------------------------------------------
(* SpecAffect: handleFaceSignal on signals inside and outside [0,1] *)

AffectValues ==
    {Rat(k, 10) : k \in 0..10} \cup {Rat(7, 20), Rat(11, 20)}
        \cup {Rat(-10, 1), Rat(-1, 1), Rat(3, 2), Rat(10, 1)}

AffectSignals ==
    {[calm |-> c, focus |-> f] : c, f \in AffectValues}
        \cup {[calm |-> c] : c \in AffectValues} \cup {[null |-> One]}

FaceAffect ==
    /\ NewCount < MaxAffect
    /\ \E sig \in AffectSignals : handleFaceSignal(sig, TRUE)
    /\ UNCHANGED <<caughtAt, camVars, filterVars, fnVars, sleepVars, chatVars>>

NextAffect == FaceAffect \/ Tick

SpecAffect == InitFaults /\ [][NextAffect]_vars

InUnit(x) == RLe(Zero, x) /\ RLe(x, One)

\* C4: for calm and focus in [0,1] the label is that of the first matching
\* rule: calm > 0.6 and calm > focus: calm; focus > 0.55 and focus > calm:
\* focused; calm < 0.35 and focus < 0.4: tense; otherwise neutral; no other
\* label is ever produced.
C4_ClassifierRules ==
    LET c == emotion.scores.calm
        f == emotion.scores.focus
        p == emotion.primary
        r1 == c.n * 5 > 3 * c.d /\ RLt(f, c)
        r2 == f.n * 20 > 11 * f.d /\ RLt(c, f)
        r3 == c.n * 20 < 7 * c.d /\ f.n * 5 < 2 * f.d
    IN  (now > 0 /\ InUnit(c) /\ InUnit(f)) =>
            /\ r1 => p = "calm"
            /\ (~r1 /\ r2) => p = "focused"
            /\ (~r1 /\ ~r2 /\ r3) => p = "tense"
            /\ (~r1 /\ ~r2 /\ ~r3) => p = "neutral"
            /\ p \in {"calm", "focused", "tense", "neutral"}

\* C4 witness: calm sits exactly on its threshold, so the first rule does not
\* match and the label is neutral.
C4_Witness ==
    /\ now > 0
    /\ emotion.scores.calm = Rat(3, 5)
    /\ emotion.scores.focus = Rat(3, 10)
    /\ emotion.primary = "neutral"

\* C5: the value pushed for a face signal is focus*1.25 + calm*0.9 clamped to
\* [-3,3], also for inputs outside [0,1]; every camera sample of the staging
\* queue and of the window has a value in [-3,3].
C5_MappedValueClamped ==
    LET c == emotion.scores.calm
        f == emotion.scores.focus
        \* raw = num/200
        num == f.n * 250 * c.d + c.n * 180 * f.d
        den == 200 * c.d * f.d
        expected == IF num < -3 * den THEN Rat(-3, 1)
                    ELSE IF num > 3 * den THEN Rat(3, 1)
                    ELSE Rat(num, den)
    IN  /\ now > 0 => arrived[Len(arrived)].value = expected
        /\ \A i \in 1..Len(rawBuffer) :
              rawBuffer[i].source = "camera" =>
                  -3 * rawBuffer[i].value.d <= rawBuffer[i].value.n
                  /\ rawBuffer[i].value.n <= 3 * rawBuffer[i].value.d
        /\ \A i \in 1..Len(signals) :
              signals[i].source = "camera" =>
                  -3 * signals[i].value.d <= signals[i].value.n
                  /\ signals[i].value.n <= 3 * signals[i].value.d

\* C5 witness: calm = 10 and focus = 10 give raw = 21.5, shown as 3 in the
\* window.
C5_Witness ==
    /\ Len(signals) > 0
    /\ signals[Len(signals)].source = "camera"
    /\ signals[Len(signals)].value = Rat(3, 1)
    /\ emotion.scores.calm = Rat(10, 1)
    /\ emotion.scores.focus = Rat(10, 1)

---------------------------------------------------------------------------
(* SpecTracker: the face tracker, its onSignal prop bound to handleFaceSignal *)

EmotionInputs ==
    {[happiness |-> One, neutral |-> Zero, sadness |-> Zero, anger |-> Zero, fear |-> Zero],
     [neutral |-> Rat(1, 2), fear |-> One, surprised |-> One],
     [happiness |-> Rat(3, 2), anger |-> Rat(-1, 2), fear |-> Rat(2, 1)]}

Responses ==
    {[kind |-> "throw"], [kind |-> "null"],
     [kind |-> "json", success |-> FALSE],
     [kind |-> "json", success |-> TRUE],
     [kind |-> "json", success |-> FALSE, emotions |-> [happiness |-> One]]}
        \cup {[kind |-> "json", success |-> TRUE, emotions |-> e] : e \in EmotionInputs}

\* the Start button is rendered while running is false, the Stop button otherwise
StartCamera ==
    /\ ~camRunning
    /\ camPending + nextTimer - 1 < MaxStarts
    /\ startCamera

CameraGranted == cameraGranted

CameraDenied == cameraDenied

StopCamera == camRunning /\ stopCamera

SampleAndSend == \E captureOk \in BOOLEAN : sampleAndSend(captureOk)

\* what the endpoint can answer: a status and a body
HttpResponses ==
    [ok : BOOLEAN,
     body : (Responses \ {[kind |-> "throw"]}) \cup {[kind |-> "empty"], [kind |-> "invalid"]}]

HttpFailures == {h \in HttpResponses : ~h.ok \/ h.body.kind \in {"empty", "invalid"}}

Respond ==
    \E data \in Responses \cup {callEmotionApi(h) : h \in HttpResponses} :
        /\ updatesFilter(data) => Len(emitted) < MaxUpdates
        /\ respond(data, TRUE)

NextTracker ==
    StartCamera \/ CameraGranted \/ CameraDenied \/ StopCamera \/ SampleAndSend \/ Respond

SpecTracker == InitFaults /\ [][NextTracker]_vars

\* C8 (as stated): every component of the smoothed vector lies in [0,1],
\* whatever values the endpoint returns.
C8_SmoothedInUnitAlways == \A k \in DOMAIN smoothed : InUnit(smoothed[k])

\* C8 (amended): as long as every emotion value the endpoint has returned lies
\* in [0,1], every component of the smoothed vector lies in [0,1]; a value
\* outside [0,1] is not clamped by the filter.
C8_SmoothedInUnitForUnitInputs ==
    (\A i \in 1..Len(emitted) : \A k \in EmotionKeys : InUnit(emitted[i].rawExpressions[k]))
        => \A k \in DOMAIN smoothed : InUnit(smoothed[k])

\* C8 witness: three in-range vectors have been smoothed.
C8_Witness ==
    /\ Len(emitted) = 3
    /\ \A i \in 1..3 : \A k \in EmotionKeys : InUnit(emitted[i].rawExpressions[k])
    /\ RLt(Rat(1, 2), smoothed["fear"])
    /\ RLt(Zero, smoothed["happiness"])

Clamp01(x) == IF RLt(x, Zero) THEN Zero ELSE IF RLt(One, x) THEN One ELSE x

\* the calm, anxious and focus values of a raw vector e of the five expressions
RawCalm(e) ==
    Clamp01(Rat(7 * Field(e, "happiness").n * Field(e, "neutral").d * Field(e, "fear").d
                + 6 * Field(e, "neutral").n * Field(e, "happiness").d * Field(e, "fear").d
                - 3 * Field(e, "fear").n * Field(e, "happiness").d * Field(e, "neutral").d,
                10 * Field(e, "happiness").d * Field(e, "neutral").d * Field(e, "fear").d))
RawAnxious(e) ==
    Clamp01(Rat(7 * Field(e, "fear").n * Field(e, "anger").d + 4 * Field(e, "anger").n * Field(e, "fear").d,
                10 * Field(e, "fear").d * Field(e, "anger").d))
RawFocus(e) ==
    Clamp01(Rat(6 * Field(e, "neutral").n * Field(e, "happiness").d
                + 3 * Field(e, "neutral").d * Field(e, "happiness").d
                + Field(e, "happiness").n * Field(e, "neutral").d,
                10 * Field(e, "neutral").d * Field(e, "happiness").d))

\* C9: a response that updates the filter emits exactly one signal, whose calm,
\* anxious and focus are computed from the raw vector of that response (each
\* within [0,1]), not from the smoothed vector; any other response emits
\* nothing.
C9_EmitsRawOncePerUpdate ==
    [][\A data \in Responses :
          respond(data, TRUE) =>
              IF data.kind = "json" /\ data.success /\ "emotions" \in DOMAIN data
              THEN /\ Len(emitted') = Len(emitted) + 1
                   /\ SubSeq(emitted', 1, Len(emitted)) = emitted
                   /\ LET sig == emitted'[Len(emitted')]
                      IN  /\ sig.calm = RawCalm(data.emotions)
                          /\ sig.anxious = RawAnxious(data.emotions)
                          /\ sig.focus = RawFocus(data.emotions)
                          /\ InUnit(sig.calm) /\ InUnit(sig.anxious) /\ InUnit(sig.focus)
                   /\ smoothed' # smoothed \/ smoothed = nextOf(data.emotions)
              ELSE emitted' = emitted /\ smoothed' = smoothed]_vars

\* C9 witness: a signal was emitted whose raw vector differs from the smoothed
\* vector kept by the filter, and whose calm is that of the raw vector.
C9_Witness ==
    /\ Len(emitted) >= 1
    /\ emitted[Len(emitted)].rawExpressions # smoothed
    /\ emitted[Len(emitted)].calm = RawCalm(emitted[Len(emitted)].rawExpressions)
    /\ emitted[Len(emitted)].calm # RawCalm(smoothed)
    /\ requests = 0

\* C11: an inference call that fails (non-2xx status, empty body or invalid
\* JSON) leaves the smoothed vector unchanged, emits no signal, enqueues no
\* camera sample and clears the in-flight flag; the next sampling tick that
\* captures a frame then issues a new request.
C11_FailedCallFailsSampleOnly ==
    [][/\ \A h \in HttpFailures :
              respond(callEmotionApi(h), TRUE) =>
                  /\ smoothed' = smoothed
                  /\ emitted' = emitted
                  /\ rawBuffer' = rawBuffer
                  /\ arrived' = arrived
                  /\ inFlight' = FALSE
       /\ (trackerError = "Emotion API error" /\ requests = 0 /\ sampleAndSend(TRUE)) =>
              (inFlight' /\ requests' = 1)]_vars

\* C11 witness: a call has failed and a new request is in flight after it.
C11_Witness ==
    /\ trackerError = "Emotion API error"
    /\ inFlight
    /\ requests = 1
    /\ emitted = <<>>
    /\ rawBuffer = <<>>

\* C22: at most one inference request is in flight at any time, with one
\* sampling timer or with several: a sampling tick that fires while a request
\* is pending issues no request, and every completion (success, unexpected
\* payload or failure) clears the in-flight flag, so that the flag is set only
\* while a request is pending.
C22_OneRequestInFlight ==
    /\ [](requests <= 1 /\ (inFlight <=> requests = 1))
    /\ [][/\ inFlight => requests' <= requests
          /\ requests' < requests => ~inFlight'
          /\ \A data \in Responses : respond(data, TRUE) => ~inFlight']_vars

\* C22 witness: two sampling timers are live, a request has completed with an
\* update, another with a failure, and a third is pending alone.
C22_Witness ==
    /\ Cardinality(timers) = 2
    /\ Len(emitted) = 1
    /\ trackerError = "Emotion API error"
    /\ inFlight
    /\ requests = 1

\* C23: after stopCamera and until the next startCamera (the tracker is not
\* running and no startCamera is awaiting the camera) no sampling timer is
\* live, so that no inference request can be started, also when startCamera
\* was invoked a second time before the first acquisition resolved.
C23_StopLeavesNoTimer == (~camRunning /\ camPending = 0) => timers = {}

---------------------------------------------------------------------------
(* SpecEma: ema applied again and again to one raw vector *)

FeedKeys == {"happiness", "fear"}
FeedValues == {Zero, Rat(1, 4), One}
FeedVectors == UNION {[D -> FeedValues] : D \in SUBSET FeedKeys}
FeedAlphas == {Rat(a, 5) : a \in 0..5}

InitEma ==
    /\ InitDashboard(0)
    /\ caughtAt = 0
    /\ camRunning = FALSE /\ camPending = 0 /\ timers = {} /\ intervalRef = 0 /\ nextTimer = 1
    /\ inFlight = FALSE /\ requests = 0 /\ trackerError = "" /\ emitted = <<>>
    /\ fnAlpha \in FeedAlphas
    /\ fnRaw \in FeedVectors
    /\ fnStart \in FeedVectors
    /\ smoothed = fnStart
    /\ fnCount = 0
    /\ InitSleep
    /\ InitChat(0)

EmaFeed == fnCount < MaxFeeds /\ emaFeed

SpecEma == InitEma /\ [][EmaFeed]_vars

\* C6: one update sets, for every key k of the previous smoothed vector or of
\* the raw vector, smoothed[k] = alpha*previous[k] + (1-alpha)*raw[k], a key
\* missing on either side counting as 0; a key seen for the first time becomes
\* (1-alpha)*raw[k], not raw[k].
C6_EmaUpdate ==
    [][fnCount' = fnCount + 1 =>
          /\ DOMAIN smoothed' = (DOMAIN smoothed) \cup (DOMAIN fnRaw)
          /\ \A k \in (DOMAIN smoothed) \cup (DOMAIN fnRaw) :
                LET p == IF k \in DOMAIN smoothed THEN smoothed[k] ELSE Zero
                    r == IF k \in DOMAIN fnRaw THEN fnRaw[k] ELSE Zero
                    a == fnAlpha
                IN  /\ smoothed'[k] = Rat(a.n * p.n * r.d + (a.d - a.n) * r.n * p.d, a.d * p.d * r.d)
                    /\ k \notin DOMAIN smoothed =>
                          smoothed'[k] = Rat((a.d - a.n) * r.n, a.d * r.d)]_vars

\* C6 witness: fear was seen for the first time and was blended against 0.
C6_Witness ==
    /\ fnCount = 1
    /\ "fear" \notin DOMAIN fnStart
    /\ fnAlpha = Rat(3, 5)
    /\ fnRaw = [fear |-> One]
    /\ smoothed = [fear |-> Rat(2, 5)]

RECURSIVE RPow(_, _)
RPow(a, n) == IF n = 0 THEN One ELSE RMul(a, RPow(a, n - 1))

\* the distance of component k of vector v to the raw vector
Dist(v, k) == RAbs(RSub(Field(v, k), Field(fnRaw, k)))

\* C7 (as stated): for every alpha in [0,1] the smoothed vector converges to
\* the raw vector: a component that starts away from its raw value is closer
\* to it after any number (>= 1) of updates.
C7_ConvergesForAllAlpha ==
    \A k \in FeedKeys :
        (fnCount >= 1 /\ RLt(Zero, Dist(fnStart, k))) => RLt(Dist(smoothed, k), Dist(fnStart, k))

\* C7 (amended): for alpha in [0,1] each component stays between its starting
\* value and the raw value, and its distance to the raw value after n updates
\* is alpha^n times the initial distance; it converges to the raw vector when
\* alpha < 1, and for alpha = 1 it keeps its starting value.
C7_GeometricApproach ==
    \A k \in FeedKeys :
        LET s == Field(smoothed, k)
            s0 == Field(fnStart, k)
            r == Field(fnRaw, k)
        IN  /\ Dist(smoothed, k) = RMul(RPow(fnAlpha, fnCount), Dist(fnStart, k))
            /\ (RLe(s0, s) /\ RLe(s, r)) \/ (RLe(r, s) /\ RLe(s, s0))
            /\ (fnCount >= 1 /\ RLt(fnAlpha, One) /\ RLt(Zero, Dist(fnStart, k)))
                  => RLt(Dist(smoothed, k), Dist(fnStart, k))
            /\ fnAlpha = One => s = s0

\* C7 witness: three updates with alpha = 0.6 took a component from 0 to
\* 1 - 0.6^3 of the raw value 1.
C7_Witness ==
    /\ fnCount = 3
    /\ fnAlpha = Rat(3, 5)
    /\ Field(fnStart, "happiness") = Zero
    /\ Field(fnRaw, "happiness") = One
    /\ Field(smoothed, "happiness") = Rat(98, 125)

---------------------------------------------------------------------------
(* SpecSleep: the sleep-timing preference under prompts, clears and reloads,
   with and without storage failures *)

PromptResults ==
    {[cancelled |-> TRUE, text |-> <<>>]} \cup {[cancelled |-> FALSE, text |-> t] : t \in Strings}

Before == [mem |-> sleepTiming, sto |-> storage]

\* lastSet after a step that may have called saveSleepTiming(val)
written(called, val, ok) ==
    IF called /\ ok THEN [has |-> TRUE, val |-> val] ELSE lastSet

MountDashboard ==
    /\ \E readOk \in BOOLEAN :
           /\ mountDashboard(readOk)
           /\ lastOp' = [op |-> "load", text |-> <<>>, called |-> FALSE, val |-> <<>>,
                         ok |-> readOk, before |-> Before]
           /\ UNCHANGED lastSet
    /\ UNCHANGED <<dashVars, caughtAt, camVars, filterVars, fnVars, chatVars>>

OnSetSleepTiming ==
    /\ \E answer \in PromptResults, writeOk \in BOOLEAN :
           /\ onSetSleepTiming(answer, writeOk)
           /\ lastSet' = written(~answer.cancelled /\ trim(answer.text) # <<>>, trim(answer.text), writeOk)
           /\ lastOp' = [op |-> IF answer.cancelled THEN "cancel" ELSE "set",
                         text |-> answer.text,
                         called |-> ~answer.cancelled /\ trim(answer.text) # <<>>,
                         val |-> trim(answer.text), ok |-> writeOk, before |-> Before]
    /\ UNCHANGED <<dashVars, caughtAt, camVars, filterVars, fnVars, chatVars>>

OnClearSleepTiming ==
    /\ \E confirmed \in BOOLEAN, writeOk \in BOOLEAN :
           /\ onClearSleepTiming(confirmed, writeOk)
           /\ lastSet' = written(sleepTiming # <<>> /\ confirmed, <<>>, writeOk)
           /\ lastOp' = [op |-> "clear", text |-> <<>>,
                         called |-> sleepTiming # <<>> /\ confirmed,
                         val |-> <<>>, ok |-> writeOk, before |-> Before]
    /\ UNCHANGED <<dashVars, caughtAt, camVars, filterVars, fnVars, chatVars>>

NextSleep == MountDashboard \/ OnSetSleepTiming \/ OnClearSleepTiming

SpecSleep == InitFaults /\ [][NextSleep]_vars
\* the string a read of the storage key yields when it does not throw
Stored == IF storage.has THEN storage.val ELSE <<>>

\* C12: when storage does not fail, after set(v) with a non-empty v the
\* in-memory value and the stored value are v, after set("") the key is absent
\* and the in-memory value is empty, and a load then returns the value of the
\* latest set.
C12_RoundTrip ==
    /\ (lastOp.op \in {"set", "clear"} /\ lastOp.called /\ lastOp.ok) =>
           IF lastOp.val # <<>>
           THEN sleepTiming = lastOp.val /\ storage = [has |-> TRUE, val |-> lastOp.val]
           ELSE sleepTiming = <<>> /\ ~storage.has
    /\ (lastOp.op = "load" /\ lastOp.ok /\ lastSet.has) =>
           /\ sleepTiming = lastSet.val
           /\ lastSet.val = <<>> => ~storage.has

\* C12 witness: a value was set, the in-memory value was lost by a failing
\* load, and the next load reads the value back from storage.
C12_Witness ==
    /\ lastOp.op = "load" /\ lastOp.ok
    /\ lastOp.before.mem = <<>>
    /\ lastSet = [has |-> TRUE, val |-> <<"a", " ", "a">>]
    /\ sleepTiming = <<"a", " ", "a">>

C19_SetStoresTrimmed ==
    (lastOp.op = "set" /\ lastOp.text # <<>> /\ lastOp.ok) =>
        sleepTiming = trim(lastOp.text) /\ Stored = trim(lastOp.text)

\* C19 (amended): when storage does not fail, after the prompt returns a text
\* that is not empty once trimmed, the stored and the in-memory value are the
\* trimmed text; a text of whitespace only changes nothing.
C19_SetStoresTrimmedNonBlank ==
    /\ (lastOp.op = "set" /\ trim(lastOp.text) # <<>> /\ lastOp.ok) =>
           /\ sleepTiming = trim(lastOp.text)
           /\ storage = [has |-> TRUE, val |-> trim(lastOp.text)]
    /\ (lastOp.op = "set" /\ trim(lastOp.text) = <<>>) =>
           sleepTiming = lastOp.before.mem /\ storage = lastOp.before.sto

\* C19 witness: " a " was typed and "a" is stored and shown.
C19_Witness ==
    /\ lastOp.op = "set" /\ lastOp.ok
    /\ lastOp.text = <<" ", "a", " ">>
    /\ sleepTiming = <<"a">>
    /\ storage = [has |-> TRUE, val |-> <<"a">>]
---------------------------------------------------------------------------
(* SpecChat: voice turns and text turns of the ChatBot, interleaved *)

\* bodies the endpoint can answer the audio post with
TransBodies ==
    {[kind |-> "empty"], [kind |-> "invalid"], [kind |-> "null"],
     [kind |-> "json", success |-> FALSE],
     [kind |-> "json", success |-> FALSE, error |-> <<"e">>],
     [kind |-> "json", success |-> FALSE, transcript |-> <<"h">>],
     [kind |-> "json", success |-> TRUE, transcript |-> <<>>],
     [kind |-> "json", success |-> TRUE, transcript |-> <<"h">>]}

\* bodies the endpoint can answer the text post with
ReplyBodies ==
    {[kind |-> "empty"], [kind |-> "invalid"],
     [kind |-> "json", success |-> FALSE],
     [kind |-> "json", success |-> FALSE, error |-> <<"e">>],
     [kind |-> "json", success |-> FALSE, replyText |-> <<"r">>, audioBase64 |-> TRUE],
     [kind |-> "json", success |-> TRUE],
     [kind |-> "json", success |-> TRUE, replyText |-> <<"r">>],
     [kind |-> "json", success |-> TRUE, replyText |-> <<"r">>, audioBase64 |-> TRUE]}

\* what the text field can hold when Enter is pressed
TypedTexts == {<<>>, <<" ", " ">>, <<" ", "a", " ">>, <<"a", " ", "a">>}

notChat == <<dashVars, caughtAt, camVars, filterVars, fnVars, sleepVars>>

\* turns begun or about to begin
Begun == Len(turns) + Len(micPending)

StartRecording == Begun < MaxTurns /\ startRecording /\ UNCHANGED notChat

MicGranted == (\E i \in 1..Len(micPending) : micGranted(i)) /\ UNCHANGED notChat

MicDenied == (\E i \in 1..Len(micPending) : micDenied(i)) /\ UNCHANGED notChat

StopRecording == stopRecording /\ UNCHANGED notChat

Onstop == (\E t \in 1..Len(turns) : onstop(t)) /\ UNCHANGED notChat

Transcribed ==
    /\ \E t \in 1..Len(turns), h \in [ok : BOOLEAN, body : TransBodies] : transcribed(t, h)
    /\ UNCHANGED notChat

Replied ==
    /\ \E t \in 1..Len(turns), h \in [ok : BOOLEAN, body : ReplyBodies] : replied(t, h)
    /\ UNCHANGED notChat

Played == (\E t \in 1..Len(turns) : played(t)) /\ UNCHANGED notChat

SendText == Begun < MaxTurns /\ (\E txt \in TypedTexts : sendText(txt)) /\ UNCHANGED notChat

TextReplied ==
    /\ \E t \in 1..Len(turns), h \in [ok : BOOLEAN, body : ReplyBodies] : textReplied(t, h)
    /\ UNCHANGED notChat

ToggleVoice == toggleVoice /\ UNCHANGED notChat

NextChat ==
    \/ StartRecording \/ MicGranted \/ MicDenied \/ StopRecording \/ Onstop
    \/ Transcribed \/ Replied \/ Played \/ SendText \/ TextReplied
    \/ ToggleVoice

SpecChat == InitFaults /\ [][NextChat]_vars
VoiceTurns == {t \in 1..Len(turns) : turns[t].kind = "voice"}
TextTurns == {t \in 1..Len(turns) : turns[t].kind = "text"}

\* the requests of turn t in the given mode
CallsOf(t, mode) == {i \in 1..Len(calls) : calls[i].turn = t /\ calls[i].mode = mode}

IsMsg(e) == e.e = "msg"

\* the messages turn t has appended, in order
MsgsOf(t) == [k \in 1..Len(SelectSeq(turns[t].ev, IsMsg)) |->
                 messages[SelectSeq(turns[t].ev, IsMsg)[k].at]]

\* every message after the initial ones was appended by exactly one turn
Accounted ==
    LET ats == {a \in UNION {{t} \X (1..Len(turns[t].ev)) : t \in 1..Len(turns)} :
                   turns[a[1]].ev[a[2]].e = "msg"}
    IN  /\ Cardinality(ats) < Len(messages)
        /\ \A i \in (Len(messages) - Cardinality(ats) + 1)..Len(messages) :
              Cardinality({a \in ats : turns[a[1]].ev[a[2]].at = i}) = 1

\* the answer r is no success: nothing came back, or success is not true
NoSuccess(r) == r.kind \in {"throw", "null"} \/ (r.kind = "json" /\ ~Opt(r, "success", FALSE))

\* the transcription did not succeed: response missing, success not true, or
\* transcript empty
NotTranscribed(r) ==
    \/ r.kind = "null"
    \/ r.kind = "json" /\ ~Opt(r, "success", FALSE)
    \/ r.kind = "json" /\ Opt(r, "transcript", <<>>) = <<>>

ValidTranscript(r) ==
    r.kind = "json" /\ Opt(r, "success", FALSE) /\ Opt(r, "transcript", <<>>) # <<>>

\* C14: a voice turn whose transcription call does not succeed (response
\* missing, success not true, or transcript empty) appends exactly one message,
\* an assistant message, and no user message, and never issues the text call.
C14_TranscriptionFailure ==
    /\ Accounted
    /\ \A t \in VoiceTurns :
          NotTranscribed(turns[t].trans) =>
              /\ turns[t].pc = "done"
              /\ Len(MsgsOf(t)) = 1
              /\ MsgsOf(t)[1].role = "assistant"
              /\ CallsOf(t, "text") = {}
              /\ Cardinality(CallsOf(t, "audio")) = 1

\* C14 witness: the endpoint answered success false with a transcript; the
\* turn is over with the one failure message.
C14_Witness ==
    \E t \in VoiceTurns :
        /\ turns[t].trans = [kind |-> "json", success |-> FALSE, transcript |-> <<"h">>]
        /\ turns[t].pc = "done"
        /\ messages[Len(messages)] = message("assistant", <<"Could not transcribe audio.">>)
        /\ Len(calls) = 1

\* C15: on a valid transcript the transcript is appended as a user message
\* before the text call is issued; if that call does not return success true,
\* exactly one assistant failure message follows the user message, no reply is
\* appended and no audio is played.
C15_ValidTranscript ==
    \A t \in VoiceTurns :
        ValidTranscript(turns[t].trans) =>
            LET ev == turns[t].ev
                r == turns[t].reply
            IN  /\ Len(ev) >= 3
                /\ ev[2].e = "msg"
                /\ messages[ev[2].at] = message("user", turns[t].trans.transcript)
                /\ ev[3].e = "call"
                /\ calls[ev[3].at].turn = t
                /\ calls[ev[3].at].mode = "text"
                /\ calls[ev[3].at].text = turns[t].trans.transcript
                /\ CallsOf(t, "text") = {ev[3].at}
                /\ NoSuccess(r) =>
                      /\ turns[t].pc = "done"
                      /\ Len(ev) = 4
                      /\ ev[4].e = "msg"
                      /\ ev[4].at > ev[2].at
                      /\ messages[ev[4].at].role = "assistant"
                      /\ messages[ev[4].at].text \in
                            {<<"Assistant failed to respond.">>,
                             <<"Something went wrong processing your audio.">>,
                             Opt(r, "error", <<>>)}
                      /\ Len(MsgsOf(t)) = 2

\* C15 witness: the text call answered success false together with a reply
\* text and audio; neither was used.
C15_Witness ==
    \E t \in VoiceTurns :
        /\ ValidTranscript(turns[t].trans)
        /\ turns[t].reply = [kind |-> "json", success |-> FALSE, replyText |-> <<"r">>,
                             audioBase64 |-> TRUE]
        /\ turns[t].voice
        /\ turns[t].pc = "done"
        /\ MsgsOf(t) = <<message("user", <<"h">>),
                         message("assistant", <<"Assistant failed to respond.">>)>>
\* the steps of a voice turn: Recording (recording, then stopped until the
\* stop event is delivered), Transcribing, AwaitingReply (awaitingReply, then
\* playing while the reply audio starts), and back to Idle (done)
PhaseSteps ==
    {<<"recording", "stopped">>, <<"stopped", "transcribing">>,
     <<"transcribing", "awaitingReply">>, <<"transcribing", "done">>,
     <<"awaitingReply", "playing">>, <<"awaitingReply", "done">>,
     <<"playing", "done">>}

\* C16: a voice turn starts in Recording and moves only along Recording,
\* Transcribing, AwaitingReply, Idle, with early exits to Idle; whenever it
\* ends (success, phase failure or thrown error) the loading flag is cleared;
\* when both calls succeed it has appended exactly two messages, the user
\* transcript followed by the assistant reply.
C16_TurnPhases ==
    [][\A t \in 1..Len(turns') :
          turns'[t].kind = "voice" =>
              /\ IF t > Len(turns)
                 THEN turns'[t].pc = "recording"
                 ELSE \/ turns'[t].pc = turns[t].pc
                      \/ <<turns[t].pc, turns'[t].pc>> \in PhaseSteps
              /\ (t <= Len(turns) /\ turns[t].pc # "done" /\ turns'[t].pc = "done") =>
                    ~loading'
              /\ (turns'[t].pc = "done" /\ ValidTranscript(turns'[t].trans)
                     /\ ~NoSuccess(turns'[t].reply)) =>
                    MsgsOf(t)' =
                        <<message("user", turns'[t].trans.transcript),
                          message("assistant",
                                  Opt(turns'[t].reply, "replyText", <<"(no reply text)">>))>>
      ]_vars

\* C16 witness: a voice turn went through both calls, played the reply and is
\* over; two messages were appended and nothing is loading or recording.
C16_Witness ==
    \E t \in VoiceTurns :
        /\ turns[t].pc = "done"
        /\ Len(turns[t].ev) = 5
        /\ messages = <<message("assistant", Greeting), message("user", <<"h">>),
                        message("assistant", <<"r">>)>>
        /\ ~loading
        /\ ~recording
\* what a text turn has done so far: one user message, one text call and no
\* audio call; once it is over, one assistant message after the user message
TextTurnOk(t) ==
    /\ CallsOf(t, "audio") = {}
    /\ Cardinality(CallsOf(t, "text")) = 1
    /\ Len(MsgsOf(t)) = IF turns[t].pc = "awaitingReply" THEN 1 ELSE 2
    /\ MsgsOf(t)[1].role = "user"
    /\ Len(MsgsOf(t)) = 2 => MsgsOf(t)[2].role = "assistant"

\* C17: sendText with a text that is not blank appends one user message
\* holding the trimmed text and issues exactly one call, the text call with
\* that text, and the turn then appends exactly one assistant message;
\* sendText with an empty or whitespace-only text changes nothing and issues
\* no call.
C17_SendText ==
    [][/\ \A txt \in TypedTexts :
              sendText(txt) =>
                  IF trim(txt) = <<>>
                  THEN UNCHANGED chatVars
                  ELSE /\ messages' = Append(messages, message("user", trim(txt)))
                       /\ Len(calls') = Len(calls) + 1
                       /\ calls'[Len(calls')].mode = "text"
                       /\ calls'[Len(calls')].text = trim(txt)
                       /\ Len(turns') = Len(turns) + 1
       /\ \A t \in 1..Len(turns') : turns'[t].kind = "text" => TextTurnOk(t)'
       /\ Accounted'
      ]_vars

\* C17 witness: " a " was sent; the turn is over with the user message "a" and
\* the reply.
C17_Witness ==
    \E t \in TextTurns :
        /\ turns[t].pc = "done"
        /\ turns[t].said = <<"a">>
        /\ MsgsOf(t) = <<message("user", <<"a">>), message("assistant", <<"(no reply text)">>)>>
        /\ Len(calls) = 1
        /\ calls[1].mode = "text"
---------------------------------------------------------------------------
(* SpecOverlap: turns of the ChatBot that overlap, each call answered by a
   failure or by a success, starting from a short or a long conversation *)

OverlapTrans ==
    {[ok |-> TRUE, body |-> [kind |-> "json", success |-> FALSE]],
     [ok |-> TRUE, body |-> [kind |-> "json", success |-> TRUE, transcript |-> <<"h">>]]}

OverlapReplies ==
    {[ok |-> FALSE, body |-> [kind |-> "empty"]],
     [ok |-> TRUE, body |-> [kind |-> "json", success |-> TRUE, replyText |-> <<"r">>]]}

InitOverlap ==
    /\ InitDashboard(0)
    /\ caughtAt = 0
    /\ InitTracker
    /\ InitFeed
    /\ InitSleep
    /\ \E p \in {0, EarlierTurns} : InitChat(p)

MouseDown == Begun < MaxOverlap /\ startRecording /\ UNCHANGED notChat

MouseUp == stopRecording /\ UNCHANGED notChat

TranscriptArrives ==
    /\ \E t \in 1..Len(turns), h \in OverlapTrans : transcribed(t, h)
    /\ UNCHANGED notChat

ReplyArrives ==
    /\ \E t \in 1..Len(turns), h \in OverlapReplies : replied(t, h) \/ textReplied(t, h)
    /\ UNCHANGED notChat

Enter == Begun < MaxOverlap /\ sendText(<<"a">>) /\ UNCHANGED notChat

NextOverlap ==
    MouseDown \/ MicGranted \/ MouseUp \/ Onstop \/ TranscriptArrives \/ ReplyArrives \/ Enter

SpecOverlap == InitOverlap /\ [][NextOverlap]_vars

\* C20: the history posted with each request of a voice turn is the last 10
\* messages of the conversation as it stands when the request is sent (the
\* transcript the request itself carries not counted), also when messages were
\* appended between the start of the recording and its stop.
C20_HistoryIsCurrent ==
    \A i \in 1..Len(calls) :
        turns[calls[i].turn].kind = "voice" =>
            calls[i].history = sliceLast(calls[i].conv, HistoryLen)
\* the recorders whose state is "recording"
Recorders == {t \in VoiceTurns : turns[t].pc = "recording"}

\* C18: under any interleaving of startRecording and stopRecording, a second
\* startRecording before the first one's microphone acquisition resolves
\* included, there are never two recorders in the recording state.
C18_AtMostOneRecording == Cardinality(Recorders) <= 1

\* C24: once stopRecording has run, the recording flag stays false and no
\* recorder is left recording: an acquisition that was still pending when
\* stopRecording ran does not, when it resolves, start a recorder or set the
\* flag.
C24_ReleaseEndsRecording ==
    [][\A i \in 1..Len(micPending) :
          (micPending[i].released /\ micGranted(i)) =>
              (~recording' /\ Recorders' = {})]_vars

\* the turns with a request outstanding, and the turns whose handleAudioFlow or
\* sendText has begun and has not returned
Outstanding == {t \in 1..Len(turns) : turns[t].pc \in {"transcribing", "awaitingReply"}}

InProgress == {t \in 1..Len(turns) : turns[t].pc \in {"transcribing", "awaitingReply", "playing"}}

\* C25: the loading flag is true whenever at least one turn, voice or text,
\* has a request outstanding, whatever the interleaving of overlapping turns,
\* and a step that clears the flag leaves no turn in progress.
C25_LoadingWhileOutstanding ==
    /\ [](Outstanding # {} => loading)
    /\ [][(loading /\ ~loading') => InProgress' = {}]_vars
===========================================================================
